---- MODULE Spec2Model ----
(***************************************************************************)
(* Model of src/app/page.tsx: the Home component's state, its handlers     *)
(* (handleFileSelect, handleAnalyze, handleRemoveImage, handleClearAll,    *)
(* the two toggles) and the response reconciliation that handleAnalyze     *)
(* performs inline on the agent's JSON response.                           *)
(*                                                                         *)
(* JavaScript values are tagged records, one field name per type so that   *)
(* values of different types are comparable:                               *)
(*   undefined, null, boolean b, number n, string s, array a, object f     *)
(* An object's f is a function from its own property names to values; a    *)
(* property that is not in DOMAIN f is absent and reads as undefined.      *)
(***************************************************************************)
EXTENDS Integers, Sequences, FiniteSets, TLC

VARIABLES
    imageData,       \* 0 for null, otherwise the id of the loaded file
    isAnalyzing,     \* boolean
    analysisResult,  \* Null or the stored result (a JavaScript value)
    error,           \* Null or a string value
    showDebug,       \* boolean
    useSampleData,   \* boolean
    rawResponse,     \* text: << >> is '', <<v>> the JSON text of value v
    pc,              \* handleAnalyze: "idle", "uploading" (awaiting uploadFiles), "calling" (awaiting callAIAgent)
    runImage,        \* the imageData captured by the running handleAnalyze closure (0 if none)
    loading,         \* files whose convertToBase64 promise is pending in handleFileSelect
    runs,            \* number of handleAnalyze runs started
    assetIds,        \* uploadResult.asset_ids of the running handleAnalyze (Undefined before the upload resolves)
    resultImage,     \* the file whose analysis produced analysisResult (0 when analysisResult is null)
    last             \* how the most recent step ended a handleAnalyze run ("other" if it ended none)

vars == <<imageData, isAnalyzing, analysisResult, error, showDebug, useSampleData,
          rawResponse, pc, runImage, loading, runs, assetIds, resultImage, last>>

----------------------------------------------------------------------------
(* Bounds *)

MaxImages == 2
MaxRuns == 2
MaxAssets == 2

----------------------------------------------------------------------------
(* JavaScript values *)

Undefined == [t |-> "undefined"]
Null == [t |-> "null"]
Bool(b) == [t |-> "boolean", b |-> b]
Num(n) == [t |-> "number", n |-> n]
Str(s) == [t |-> "string", s |-> s]
Arr(a) == [t |-> "array", a |-> a]
Obj(f) == [t |-> "object", f |-> f]

\* Marks a property left out of an object literal of the input space.
Absent == [t |-> "absent"]

NoProps == [k \in {} |-> Undefined]

\* The object with the properties of p that are not Absent.
MkObj(p) == Obj([k \in {k \in DOMAIN p : p[k] # Absent} |-> p[k]])

IsNullish(v) == v.t \in {"undefined", "null"}

\* ToBoolean: what `if (v)`, `v || x` and `v && x` test.
Truthy(v) ==
    CASE v.t = "undefined" -> FALSE
      [] v.t = "null" -> FALSE
      [] v.t = "boolean" -> v.b
      [] v.t = "number" -> v.n # 0
      [] v.t = "string" -> v.s # ""
      [] OTHER -> TRUE

\* v.k for a v that is neither null nor undefined: a primitive or an array
\* has none of the property names read here, so the read gives undefined.
Get(v, k) == IF v.t = "object" /\ k \in DOMAIN v.f THEN v.f[k] ELSE Undefined

\* v?.k
OptGet(v, k) == IF IsNullish(v) THEN Undefined ELSE Get(v, k)

\* a || b
Or(a, b) == IF Truthy(a) THEN a ELSE b

\* Array.isArray(v)
IsArray(v) == v.t = "array"

\* JSON.stringify(v, null, 2): a non-empty text that determines v.
Stringify(v) == <<v>>

EmptyText == << >>

\* A text in a boolean context: '' is falsy.
TextTruthy(s) == Len(s) > 0

----------------------------------------------------------------------------
(* Reconciliation, lines 225-276 *)

AgentName == Str("Image Analyzer Agent")

\* new Date().toISOString()
NowISO == Str("<now>")

DefaultMetadata == Obj([agent_name |-> AgentName, timestamp |-> NowISO])

DefaultSummary == Str("Image analysis completed")

\* Reading normalized.result throws a TypeError when normalized is null or undefined.
ReadThrows(normalized) == IsNullish(normalized)

TypeErrorMessage == Str("Cannot read properties of null (reading 'result')")

\* As Path1Guard, accepting result.data only when it is an object.
Path1GuardObjectOnly(normalized) == OptGet(Get(normalized, "result"), "data").t = "object"

\* normalized.result?.data
Path1Guard(normalized) == Truthy(OptGet(Get(normalized, "result"), "data"))

\* else if (normalized.result)
Path2Guard(normalized) == Truthy(Get(normalized, "result"))

\* res.scene_description || res.objects_detected || res.color_analysis || res.mood_and_context
MarkerGuard(res) ==
    \/ Truthy(Get(res, "scene_description"))
    \/ Truthy(Get(res, "objects_detected"))
    \/ Truthy(Get(res, "color_analysis"))
    \/ Truthy(Get(res, "mood_and_context"))

\* res.summary || normalized.message || 'Image analysis completed'
Path2Summary(normalized, res) ==
    Or(Get(res, "summary"), Or(Get(normalized, "message"), DefaultSummary))

\* The object literal of Path 2.
Path2Result(normalized, res) ==
    LET mood == Get(res, "mood_and_context")
        useCases == OptGet(mood, "suggested_use_cases")
    IN Obj([
        status |-> Or(Get(normalized, "status"), Str("success")),
        result |-> Obj([
            summary |-> Path2Summary(normalized, res),
            data |-> Obj([
                scene_description |-> Or(Get(res, "scene_description"), Str("")),
                objects_detected |->
                    IF IsArray(Get(res, "objects_detected"))
                    THEN Get(res, "objects_detected") ELSE Arr(<< >>),
                text_extracted |-> Or(Get(res, "text_extracted"), Str("")),
                color_analysis |-> Obj([
                    dominant_colors |->
                        Or(OptGet(Get(res, "color_analysis"), "dominant_colors"), Arr(<< >>))]),
                mood_and_context |-> Obj([
                    emotional_tone |-> Or(OptGet(mood, "emotional_tone"), Str("")),
                    suggested_use_cases |->
                        IF IsArray(useCases) THEN useCases ELSE Arr(<< >>)])])]),
        metadata |-> Or(Get(normalized, "metadata"), DefaultMetadata)])

\* else if (res.summary && res.data)
Path3Guard(res) == Truthy(Get(res, "summary")) /\ Truthy(Get(res, "data"))

\* The object literal of Path 3.
Path3Result(normalized, res) ==
    Obj([
        status |-> Or(Get(normalized, "status"), Str("success")),
        result |-> res,
        metadata |-> Or(Get(normalized, "metadata"), DefaultMetadata)])

\* As SelectedPath, with the flattened shape tested before the nested one.
SelectedPathFlatFirst(normalized) ==
    IF Path2Guard(normalized) /\ MarkerGuard(Get(normalized, "result")) THEN 2
    ELSE IF Path1Guard(normalized) THEN 1
    ELSE IF Path2Guard(normalized) /\ Path3Guard(Get(normalized, "result")) THEN 3
    ELSE 0

\* Which branch assigns finalResult: 1, 2, 3, or 0 when it stays null.
SelectedPath(normalized) ==
    IF Path1Guard(normalized) THEN 1
    ELSE IF Path2Guard(normalized)
         THEN LET res == Get(normalized, "result")
              IN IF MarkerGuard(res) THEN 2
                 ELSE IF Path3Guard(res) THEN 3 ELSE 0
         ELSE 0

\* As FinalResult, but an unrecognized object is defaulted through the Path 2 literal.
FinalResultDefaulting(normalized) ==
    LET res == Get(normalized, "result")
        path == SelectedPath(normalized)
    IN CASE path = 1 -> normalized
         [] path = 2 -> Path2Result(normalized, res)
         [] path = 3 -> Path3Result(normalized, res)
         [] OTHER -> IF normalized.t = "object" THEN Path2Result(normalized, res) ELSE Null

\* finalResult after the if-chain, for a normalized whose reads do not throw.
FinalResult(normalized) ==
    LET res == Get(normalized, "result")
        path == SelectedPath(normalized)
    IN CASE path = 1 -> normalized
         [] path = 2 -> Path2Result(normalized, res)
         [] path = 3 -> Path3Result(normalized, res)
         [] OTHER -> Null

----------------------------------------------------------------------------
(* The agent's responses: JSON values in and around the three shapes the   *)
(* prompt of line 215 and the AnalysisResult interface describe.           *)

Cat == Obj([object |-> Str("cat"), confidence |-> Str("90%")])
Blue == Obj([color_name |-> Str("Sky Blue"), hex_code |-> Str("#87CEEB")])

MetaA == Obj([agent_name |-> Str("A"), timestamp |-> Str("2024-01-01T00:00:00Z")])

\* A complete `data` object (lines 48-59).
DataFull ==
    Obj([scene_description |-> Str("D"),
         objects_detected |-> Arr(<<Cat>>),
         text_extracted |-> Str(""),
         color_analysis |-> Obj([dominant_colors |-> Arr(<< >>)]),
         mood_and_context |-> Obj([emotional_tone |-> Str("calm"),
                                   suggested_use_cases |-> Arr(<< >>)])])

\* A `data` object whose fields have the wrong types.
DataMistyped ==
    Obj([scene_description |-> Num(5),
         objects_detected |-> Str("cat"),
         text_extracted |-> Null,
         color_analysis |-> Obj([dominant_colors |-> Str("red")]),
         mood_and_context |-> Obj([emotional_tone |-> Bool(TRUE),
                                   suggested_use_cases |-> Null])])

DataVals ==
    {Absent, Null, Bool(FALSE), Bool(TRUE), Num(0), Num(1), Str(""), Str("x"),
     Arr(<< >>), Obj(NoProps), Obj([scene_description |-> Str("D2")]), DataFull, DataMistyped}

SummaryVals == {Absent, Str(""), Str("S"), Num(5)}
SceneVals == {Absent, Str(""), Str("D"), Num(1)}
ObjectsVals == {Absent, Arr(<< >>), Arr(<<Cat>>), Str("cat")}
TextVals == {Absent, Str("T")}
ColorVals ==
    {Absent, Obj(NoProps), Obj([dominant_colors |-> Arr(<<Blue>>)]),
     Obj([dominant_colors |-> Str("red")])}
MoodVals ==
    {Absent, Obj(NoProps),
     Obj([emotional_tone |-> Str("calm"), suggested_use_cases |-> Arr(<<Str("blog")>>)]),
     Obj([emotional_tone |-> Num(3), suggested_use_cases |-> Str("blog")])}

StatusVals == {Absent, Str(""), Str("success")}
MessageVals == {Absent, Str(""), Str("M")}
MetadataVals == {Absent, MetaA}

\* `result` objects with a `data` property, with and without a marker beside it.
NestedResults ==
    {MkObj([data |-> d, summary |-> s, scene_description |-> sc]) :
        d \in DataVals \ {Absent}, s \in SummaryVals, sc \in SceneVals}

\* `result` objects without a `data` property.
FlatResults ==
    {MkObj([summary |-> s, scene_description |-> sc, objects_detected |-> o,
            text_extracted |-> tx, color_analysis |-> c, mood_and_context |-> m]) :
        s \in SummaryVals, sc \in SceneVals, o \in ObjectsVals,
        tx \in TextVals, c \in ColorVals, m \in MoodVals}

OtherResults ==
    {Absent, Null, Bool(TRUE), Num(0), Num(1), Str(""), Str("r"), Arr(<< >>),
     Obj([unrelatedField |-> Num(1)])}

ResultVals == NestedResults \cup FlatResults \cup OtherResults

\* Responses that are not objects, or objects without the expected keys.
PlainResponses ==
    {Null, Bool(FALSE), Bool(TRUE), Num(0), Num(1), Str(""), Str("text"), Arr(<< >>),
     Arr(<<Num(1)>>), Obj(NoProps), Obj([foo |-> Str("bar")])}

AllResponses ==
    PlainResponses \cup
    {MkObj([status |-> st, message |-> msg, metadata |-> md, result |-> r]) :
        st \in StatusVals, msg \in MessageVals, md \in MetadataVals, r \in ResultVals}

\* The scenarios of the specification and the smallest response of each kind.
CoreResponses ==
    {Null,
     Str("text"),
     Obj([foo |-> Str("bar")]),
     Obj([result |-> Obj([unrelatedField |-> Num(1)])]),
     Obj([status |-> Str("success"),
          result |-> Obj([summary |-> Str("S"), data |-> DataFull]),
          metadata |-> MetaA]),
     Obj([result |-> Obj([data |-> Obj(NoProps)])]),
     Obj([result |-> Obj([data |-> Str("x")])]),
     Obj([result |-> Obj([scene_description |-> Str("D"), objects_detected |-> Arr(<< >>)])]),
     Obj([result |-> Obj([summary |-> Str("S2"), data |-> Obj([scene_description |-> Str("D2")])])]),
     Obj([result |-> Obj([scene_description |-> Str("")])])}

\* The `error` property of a failed invocation: absent, empty or a message.
AgentErrors == {Absent, Str(""), Str("agent failed")}

----------------------------------------------------------------------------
(* Messages *)

InvalidTypeMessage == Str("Please upload a valid image file (JPG, PNG, WEBP, or GIF)")
TooLargeMessage == Str("File size must be less than 10MB")
ProcessFailedMessage == Str("Failed to process image")
UploadFailedMessage == Str("Failed to upload image")
CouldNotParseMessage ==
    Str("Could not parse agent response. Enable debug view to see raw response.")
AnalyzeFailedMessage == Str("Failed to analyze image")
GenericErrorMessage == Str("An error occurred during analysis")
\* The message of an Error a collaborator rejects with.
RejectionMessage == Str("Network error")

Files == 1..MaxImages

----------------------------------------------------------------------------
(* State after construction, lines 89-98 *)

Init ==
    /\ imageData = 0
    /\ isAnalyzing = FALSE
    /\ analysisResult = Null
    /\ error = Null
    /\ showDebug = FALSE
    /\ useSampleData = FALSE
    /\ rawResponse = EmptyText
    /\ pc = "idle"
    /\ runImage = 0
    /\ loading = {}
    /\ runs = 0
    /\ assetIds = Undefined
    /\ resultImage = 0
    /\ last = "other"

\* The upload zone and its file input are rendered (line 369).
UploadZoneShown == imageData = 0 /\ ~useSampleData

----------------------------------------------------------------------------
(* handleFileSelect, lines 143-172 *)

\* The file fails the type or the size validation.
FileSelectRejected ==
    /\ UploadZoneShown
    /\ \E msg \in {InvalidTypeMessage, TooLargeMessage} : error' = msg
    /\ last' = "other"
    /\ UNCHANGED <<imageData, isAnalyzing, analysisResult, showDebug, useSampleData,
                   rawResponse, pc, runImage, loading, runs, assetIds, resultImage>>

\* A valid file: setError(null), then the handler awaits convertToBase64.
FileSelectStart ==
    /\ UploadZoneShown
    /\ \E f \in Files \ loading : loading' = loading \cup {f}
    /\ error' = Null
    /\ last' = "other"
    /\ UNCHANGED <<imageData, isAnalyzing, analysisResult, showDebug, useSampleData,
                   rawResponse, pc, runImage, runs, assetIds, resultImage>>

\* convertToBase64 resolves: setImageData, setAnalysisResult(null).
FileSelectLoaded ==
    /\ \E f \in loading :
        /\ loading' = loading \ {f}
        /\ imageData' = f
    /\ analysisResult' = Null
    /\ resultImage' = 0
    /\ last' = "other"
    /\ UNCHANGED <<isAnalyzing, error, showDebug, useSampleData, rawResponse, pc,
                   runImage, runs, assetIds>>

\* convertToBase64 rejects: the catch of line 169.
FileSelectFailed ==
    /\ \E f \in loading : loading' = loading \ {f}
    /\ error' = ProcessFailedMessage
    /\ last' = "other"
    /\ UNCHANGED <<imageData, isAnalyzing, analysisResult, showDebug, useSampleData,
                   rawResponse, pc, runImage, runs, assetIds, resultImage>>

----------------------------------------------------------------------------
(* handleAnalyze, lines 201-297 *)

\* The Analyze button is rendered and enabled (lines 453-457).
AnalyzeEnabled == ~useSampleData /\ imageData # 0 /\ ~isAnalyzing

\* As AnalyzeStart, also clearing the previous result.
AnalyzeStartClearing ==
    /\ AnalyzeEnabled
    /\ pc = "idle"
    /\ runs < MaxRuns
    /\ isAnalyzing' = TRUE
    /\ error' = Null
    /\ analysisResult' = Null
    /\ resultImage' = 0
    /\ runImage' = imageData
    /\ pc' = "uploading"
    /\ runs' = runs + 1
    /\ last' = "other"
    /\ UNCHANGED <<imageData, showDebug, useSampleData, rawResponse, loading, assetIds>>

\* Lines 202-208, up to the await of uploadFiles.
AnalyzeStart ==
    /\ AnalyzeEnabled
    /\ pc = "idle"
    /\ runs < MaxRuns
    /\ isAnalyzing' = TRUE
    /\ error' = Null
    /\ runImage' = imageData
    /\ pc' = "uploading"
    /\ runs' = runs + 1
    /\ last' = "other"
    /\ UNCHANGED <<imageData, analysisResult, showDebug, useSampleData, rawResponse, loading,
                   assetIds, resultImage>>

\* The catch and finally blocks (lines 291-296) for a thrown value with message msg.
Caught(msg, how) ==
    /\ error' = msg
    /\ isAnalyzing' = FALSE
    /\ pc' = "idle"
    /\ runImage' = 0
    /\ assetIds' = Undefined
    /\ last' = how

\* The asset_ids of the value uploadFiles resolves with: absent, empty, or
\* up to MaxAssets opaque identifiers.
AssetIdVals ==
    {Undefined} \cup {Arr([i \in 1..n |-> Str("asset")]) : n \in 0..MaxAssets}

\* As UploadRefused, without the test of the length.
UploadRefusedNoLength(ids) == ~Truthy(ids)

\* !uploadResult.asset_ids || uploadResult.asset_ids.length === 0 (line 210)
UploadRefused(ids) == IF Truthy(ids) THEN Len(ids.a) = 0 ELSE TRUE

\* uploadFiles resolves with at least one asset id; callAIAgent is invoked.
UploadSucceeds ==
    /\ pc = "uploading"
    /\ \E ids \in AssetIdVals :
        /\ ~UploadRefused(ids)
        /\ assetIds' = ids
    /\ pc' = "calling"
    /\ last' = "other"
    /\ UNCHANGED <<imageData, isAnalyzing, analysisResult, error, showDebug, useSampleData,
                   rawResponse, runImage, loading, runs, resultImage>>

\* uploadFiles resolves without asset ids (line 210-212), rejects with an Error,
\* or rejects with something else.
UploadFails ==
    /\ pc = "uploading"
    /\ \/ /\ \E ids \in AssetIdVals : UploadRefused(ids)
          /\ Caught(UploadFailedMessage, "uploadFailed")
       \/ \E msg \in {RejectionMessage, GenericErrorMessage} : Caught(msg, "uploadRejected")
    /\ UNCHANGED <<imageData, analysisResult, showDebug, useSampleData, rawResponse,
                   loading, runs, resultImage>>

\* callAIAgent rejects.
AgentRejects ==
    /\ pc = "calling"
    /\ \E msg \in {RejectionMessage, GenericErrorMessage} : Caught(msg, "agentRejected")
    /\ UNCHANGED <<imageData, analysisResult, showDebug, useSampleData, rawResponse,
                   loading, runs, resultImage>>

\* The value callAIAgent resolves with.
AgentResult(success, response, err) ==
    MkObj([success |-> Bool(success), response |-> response, error |-> err])

\* As UpstreamError, without the fallback.
UpstreamErrorNoFallback(result) == Get(result, "error")

\* result.error || 'Failed to analyze image' (line 288)
UpstreamError(result) == Or(Get(result, "error"), AnalyzeFailedMessage)

\* Lines 220-296 for the resolved value `result`.
AgentResolves(result) ==
    LET normalized == Get(result, "response") IN
    /\ pc = "calling"
    /\ rawResponse' = Stringify(result)
    /\ IF Truthy(Get(result, "success"))
       THEN IF ReadThrows(normalized)
            THEN /\ error' = TypeErrorMessage
                 /\ last' = "thrown"
                 /\ UNCHANGED <<analysisResult, showDebug, resultImage>>
            ELSE IF Truthy(FinalResult(normalized))
                 THEN /\ analysisResult' = FinalResult(normalized)
                      /\ resultImage' = runImage
                      /\ last' = CASE SelectedPath(normalized) = 1 -> "path1"
                                   [] SelectedPath(normalized) = 2 -> "path2"
                                   [] OTHER -> "path3"
                      /\ UNCHANGED <<error, showDebug>>
                 ELSE /\ error' = CouldNotParseMessage
                      /\ showDebug' = TRUE
                      /\ last' = "mismatch"
                      /\ UNCHANGED <<analysisResult, resultImage>>
       ELSE /\ error' = UpstreamError(result)
            /\ showDebug' = TRUE
            /\ last' = "upstream"
            /\ UNCHANGED <<analysisResult, resultImage>>
    /\ isAnalyzing' = FALSE
    /\ pc' = "idle"
    /\ runImage' = 0
    /\ assetIds' = Undefined
    /\ UNCHANGED <<imageData, useSampleData, loading, runs>>

\* Responses that come with success = false: null, a text, and one that the
\* if-chain would accept.
UpstreamResponses == {Null, Str("text"), Obj([result |-> Obj([data |-> DataFull])])}

\* callAIAgent resolves, in the page as a whole.
AgentReturns ==
    /\ pc = "calling"
    /\ \/ \E r \in CoreResponses : AgentResolves(AgentResult(TRUE, r, Absent))
       \/ \E r \in UpstreamResponses, e \in AgentErrors : AgentResolves(AgentResult(FALSE, r, e))

\* callAIAgent resolves, over the whole response space.
AgentReturnsAny ==
    /\ pc = "calling"
    /\ \/ \E r \in AllResponses : AgentResolves(AgentResult(TRUE, r, Absent))
       \/ \E r \in UpstreamResponses, e \in AgentErrors : AgentResolves(AgentResult(FALSE, r, e))

----------------------------------------------------------------------------
(* handleClearAll, handleRemoveImage and the toggles *)

\* Lines 299-310; the Clear button is rendered by lines 453 and 469.
ClearAll ==
    /\ ~useSampleData
    /\ imageData # 0 \/ Truthy(analysisResult)
    /\ imageData' = 0
    /\ analysisResult' = Null
    /\ error' = Null
    /\ useSampleData' = FALSE
    /\ resultImage' = 0
    /\ last' = "other"
    /\ UNCHANGED <<isAnalyzing, showDebug, rawResponse, pc, runImage, loading, runs, assetIds>>

\* Lines 312-321; the button is rendered by line 400.
RemoveImage ==
    /\ imageData # 0 /\ ~useSampleData
    /\ imageData' = 0
    /\ analysisResult' = Null
    /\ resultImage' = 0
    /\ last' = "other"
    /\ UNCHANGED <<isAnalyzing, error, showDebug, useSampleData, rawResponse, pc,
                   runImage, loading, runs, assetIds>>

\* Line 346.
ToggleDebug ==
    /\ showDebug' = ~showDebug
    /\ last' = "other"
    /\ UNCHANGED <<imageData, isAnalyzing, analysisResult, error, useSampleData,
                   rawResponse, pc, runImage, loading, runs, assetIds, resultImage>>

\* Line 355.
ToggleSample ==
    /\ useSampleData' = ~useSampleData
    /\ last' = "other"
    /\ UNCHANGED <<imageData, isAnalyzing, analysisResult, error, showDebug,
                   rawResponse, pc, runImage, loading, runs, assetIds, resultImage>>

\* sampleResult, lines 100-129.
SampleResult ==
    Obj([status |-> Str("success"),
         result |-> Obj([
            summary |-> Str("A serene image of a river flowing through a dense forest under a clear blue sky."),
            data |-> Obj([
                scene_description |-> Str("The image depicts a tranquil natural scene..."),
                objects_detected |-> Arr(<<Obj([object |-> Str("river"), confidence |-> Str("98%")]),
                                           Obj([object |-> Str("trees"), confidence |-> Str("95%")]),
                                           Obj([object |-> Str("sky"), confidence |-> Str("99%")])>>),
                text_extracted |-> Str(""),
                color_analysis |-> Obj([dominant_colors |-> Arr(<<
                    Obj([color_name |-> Str("Sky Blue"), hex_code |-> Str("#87CEEB")]),
                    Obj([color_name |-> Str("Forest Green"), hex_code |-> Str("#228B22")]),
                    Obj([color_name |-> Str("Earth Brown"), hex_code |-> Str("#8B4513")])>>)]),
                mood_and_context |-> Obj([
                    emotional_tone |-> Str("calm and peaceful"),
                    suggested_use_cases |-> Arr(<<Str("nature blog"), Str("environmental poster"),
                                                  Str("relaxation app background")>>)])])]),
         metadata |-> Obj([agent_name |-> Str("Image Analyzer Agent"),
                           timestamp |-> Str("2026-02-11T01:05:00Z")])])

\* displayResult, line 331.
DisplayResult == IF useSampleData THEN SampleResult ELSE analysisResult

\* The debug panel is rendered (line 645).
DebugPanelShown == showDebug /\ TextTruthy(rawResponse)

----------------------------------------------------------------------------
(* Specifications *)

Next ==
    \/ FileSelectRejected
    \/ FileSelectStart
    \/ FileSelectLoaded
    \/ FileSelectFailed
    \/ AnalyzeStart
    \/ UploadSucceeds
    \/ UploadFails
    \/ AgentRejects
    \/ AgentReturns
    \/ ClearAll
    \/ RemoveImage
    \/ ToggleDebug
    \/ ToggleSample

\* The page as a whole.
Spec == Init /\ [][Next]_vars

\* A file has been loaded and nothing analyzed yet; the debug toggle is in either position.
InitLoaded ==
    /\ imageData = 1
    /\ isAnalyzing = FALSE
    /\ analysisResult = Null
    /\ error = Null
    /\ showDebug \in BOOLEAN
    /\ useSampleData = FALSE
    /\ rawResponse = EmptyText
    /\ pc = "idle"
    /\ runImage = 0
    /\ loading = {}
    /\ runs = 0
    /\ assetIds = Undefined
    /\ resultImage = 0
    /\ last = "other"

\* The first run of handleAnalyze.
FirstAnalyze == runs = 0 /\ AnalyzeStart

NextReconcile ==
    \/ FirstAnalyze
    \/ UploadSucceeds
    \/ UploadFails
    \/ AgentRejects
    \/ AgentReturnsAny

\* One run of handleAnalyze on a loaded file, over the whole response space.
SpecReconcile == InitLoaded /\ [][NextReconcile]_vars

----------------------------------------------------------------------------
(* Vocabulary of the properties *)

\* The step just taken ended a run whose agent call resolved with success = true.
ReturnedSuccess == last \in {"path1", "path2", "path3", "mismatch", "thrown"}

\* The step just taken stored a result.
Reconciled == last \in {"path1", "path2", "path3"}

\* The response of the most recent resolved agent call (rawResponse is its JSON text).
Response == Get(rawResponse[1], "response")

\* The property k is on the object v, whatever its value.
Has(v, k) == v.t = "object" /\ k \in DOMAIN v.f

Markers == {"scene_description", "objects_detected", "color_analysis", "mood_and_context"}

\* The three structural predicates, as the guards of lines 231, 239 and 266 evaluate them.
Candidate1(p) == Truthy(Get(Get(p, "result"), "data"))
Candidate2(p) == \E k \in Markers : Truthy(Get(Get(p, "result"), k))
Candidate3(p) == Truthy(Get(Get(p, "result"), "summary")) /\ Truthy(Get(Get(p, "result"), "data"))
NoCandidate(p) == ~Candidate1(p) /\ ~Candidate2(p) /\ ~Candidate3(p)

\* The `data` object of the stored result, and the fields the properties are about.
StoredResult == Get(analysisResult, "result")
StoredData == Get(StoredResult, "data")
StoredObjects == Get(StoredData, "objects_detected")
StoredColors == Get(Get(StoredData, "color_analysis"), "dominant_colors")
StoredUseCases == Get(Get(StoredData, "mood_and_context"), "suggested_use_cases")
StoredTone == Get(Get(StoredData, "mood_and_context"), "emotional_tone")

----------------------------------------------------------------------------
(* Properties *)

\* C1: a run whose agent call resolved with success = true and any JSON value as
\* the response ends by storing a result or by the could-not-parse failure, never
\* in the catch block.  Stated as written; the code violates it for null.
C1_ReconcileNeverThrows ==
    ReturnedSuccess =>
        \/ Reconciled /\ Truthy(analysisResult) /\ error = Null
        \/ last = "mismatch" /\ error = CouldNotParseMessage

C3_ArraysAlwaysArrays ==
    Reconciled =>
        /\ IsArray(StoredObjects)
        /\ IsArray(StoredColors)
        /\ IsArray(StoredUseCases)

\* C4: a response that has a (truthy, so in particular any object) result.data
\* and also a marker field directly on result is stored verbatim by Path 1: the
\* stored data is result.data, never the object built from the marker fields.
C4_Candidate1Wins ==
    (ReturnedSuccess /\ Candidate1(Response)
        /\ \E k \in Markers : Has(Get(Response, "result"), k)) =>
        /\ last = "path1"
        /\ analysisResult = Response
        /\ StoredData = Get(Get(Response, "result"), "data")

\* C4 witness: result has both a data object and a scene_description of its own,
\* and the stored data is the data object.
C4_Witness ==
    /\ last = "path1"
    /\ Get(Get(Response, "result"), "data") = DataFull
    /\ Get(Get(Response, "result"), "scene_description") = Str("D")
    /\ StoredData = DataFull

\* C5: Path 1 is taken exactly when result.data is an object (an array counted
\* as one).  Stated as written; the code violates it.
C5_CanonicalOnlyForObjectData ==
    ReturnedSuccess =>
        (last = "path1" <=> Get(Get(Response, "result"), "data").t \in {"object", "array"})

\* C6: in every stored result the four string fields are strings.
\* Stated as written; the code violates it.
C6_StringFieldsAreStrings ==
    Reconciled =>
        /\ Get(StoredResult, "summary").t = "string"
        /\ Get(StoredData, "scene_description").t = "string"
        /\ Get(StoredData, "text_extracted").t = "string"
        /\ StoredTone.t = "string"

\* C7: every stored result has a status and a metadata object.
\* Stated as written; the code violates it.
C7_StatusAndMetadataPresent ==
    Reconciled =>
        /\ Has(analysisResult, "status")
        /\ Has(analysisResult, "metadata")
        /\ Get(analysisResult, "metadata").t = "object"

\* C8: when result is an object without data, Path 2 is taken exactly when one
\* of the four marker fields is on result, whatever its value.
\* Stated as written; the code violates it.
C8_MarkerPresenceSelectsFlattened ==
    (ReturnedSuccess /\ Get(Response, "result").t = "object"
        /\ ~Has(Get(Response, "result"), "data")) =>
        (last = "path2" <=> \E k \in Markers : Has(Get(Response, "result"), k))

\* C9: when Path 2 is taken, summary is result.summary if result has one,
\* otherwise message if the response has one, otherwise the literal.
\* Stated as written; the code violates it.
C9_SummaryFallbackChain ==
    last = "path2" =>
        Get(StoredResult, "summary") =
            IF Has(Get(Response, "result"), "summary") THEN Get(Get(Response, "result"), "summary")
            ELSE IF Has(Response, "message") THEN Get(Response, "message")
            ELSE DefaultSummary

\* C10: right after a successful agent call whose response matches no candidate,
\* error is the could-not-parse message and the debug panel with the raw response
\* is rendered.  Stated as written; the code violates it.
C10_MismatchForcesDebug ==
    (ReturnedSuccess /\ NoCandidate(Response)) =>
        /\ error = CouldNotParseMessage
        /\ showDebug
        /\ rawResponse = Stringify(AgentResult(TRUE, Response, Absent))
        /\ DebugPanelShown

\* The result callAIAgent resolved with most recently (rawResponse is its JSON text).
LastAgentResult == rawResponse[1]

\* C11: a step in which the agent call resolves with success = false stores no
\* result (the response is not reconciled, even one the if-chain would accept),
\* sets error to the agent's error text or to the fixed fallback, keeps the
\* raw response, and ends the run without another call.
C11_UpstreamFailurePropagated ==
    [][ (pc = "calling" /\ pc' = "idle" /\ last' # "agentRejected"
            /\ ~Truthy(Get(rawResponse'[1], "success"))) =>
        /\ last' = "upstream"
        /\ analysisResult' = analysisResult
        /\ resultImage' = resultImage
        /\ error' = (IF Truthy(Get(rawResponse'[1], "error"))
                     THEN Get(rawResponse'[1], "error") ELSE AnalyzeFailedMessage)
        /\ TextTruthy(rawResponse')
        /\ ~isAnalyzing'
        /\ runs' = runs ]_vars

\* C11 witness: the second call failed with a response that Path 1 would have
\* accepted; the error is the agent's text and the first run's result is kept
\* (it comes from another response).
C11_Witness ==
    /\ last = "upstream"
    /\ error = Str("agent failed")
    /\ Response = Obj([result |-> Obj([data |-> DataFull])])
    /\ Truthy(analysisResult)
    /\ analysisResult # Response

\* C12: the agent is awaited only with a non-empty array of asset ids from a
\* completed upload, and a run that ends during the upload sets an error and
\* writes neither rawResponse nor analysisResult.
C12_AgentOnlyAfterUpload ==
    [][ /\ pc' = "calling" =>
            /\ pc \in {"uploading", "calling"}
            /\ IF IsArray(assetIds') THEN Len(assetIds'.a) >= 1 ELSE FALSE
        /\ (pc = "uploading" /\ pc' = "idle") =>
            /\ error' # Null
            /\ ~isAnalyzing'
            /\ rawResponse' = rawResponse
            /\ analysisResult' = analysisResult ]_vars

\* C12 witness: the first run ended on an upload without asset ids; no agent
\* call was made and nothing was written.
C12_Witness ==
    /\ last = "uploadFailed"
    /\ runs = 1
    /\ error = UploadFailedMessage
    /\ rawResponse = EmptyText
    /\ analysisResult = Null
    /\ pc = "idle"

\* C13: no result is ever produced by Path 3: every response whose result has
\* a truthy summary and a truthy data is taken by Path 1 and stored verbatim,
\* so the status and metadata defaults of Path 3 are never applied.
C13_Path3Unreachable ==
    ReturnedSuccess =>
        /\ last # "path3"
        /\ Candidate3(Response) => (last = "path1" /\ analysisResult = Response)

\* C13 witness: result: {summary, data} without status or metadata was stored by
\* Path 1, with neither of them added.
C13_Witness ==
    /\ last = "path1"
    /\ Response = Obj([result |-> Obj([summary |-> Str("S"),
                                        data |-> Obj([scene_description |-> Str("D2")])])])
    /\ ~Has(analysisResult, "status")
    /\ ~Has(analysisResult, "metadata")

\* C14: handleAnalyze does not clear analysisResult when it starts, and a run
\* that ends without storing a result leaves analysisResult as it was and
\* error non-null.
C14_FailureKeepsResult ==
    [][ /\ (pc = "idle" /\ pc' = "uploading") => analysisResult' = analysisResult
        /\ (pc # "idle" /\ pc' = "idle" /\ last' \notin {"path1", "path2", "path3"}) =>
            /\ analysisResult' = analysisResult
            /\ error' # Null ]_vars

\* C14 witness: after a successful analysis a second run failed; the page shows
\* the error together with the earlier result.
C14_Witness ==
    /\ last \in {"uploadFailed", "uploadRejected", "agentRejected", "upstream", "mismatch", "thrown"}
    /\ runs = 2
    /\ error # Null
    /\ Truthy(analysisResult)
    /\ ~useSampleData
    /\ DisplayResult = analysisResult

\* C15: whenever a result is stored, a file is loaded and it is the file whose
\* analysis produced the result.  Stated as written; the code violates it.
C15_ResultBelongsToImage ==
    Truthy(analysisResult) => (imageData # 0 /\ resultImage = imageData)

====
